---- MODULE Spec2Model ----
(***************************************************************************)
(* A model of the S3 transfer manager of script_forge.                     *)
(*                                                                         *)
(*   Spec      the bulk orchestrators: _process_operations (pooled), the   *)
(*             asyncio.gather loops (async, hybrid) and parallel_download  *)
(*             of the earliest variant, run on one manager by a caller     *)
(*             that issues bulk calls one after another.                   *)
(*   SpecFs    the single-file download operations of one batch, step by   *)
(*             step, against a local file system and an object store.      *)
(*   SpecList  list_files / list_objects against stores of a few keys.     *)
(***************************************************************************)
EXTENDS Integers, Sequences, FiniteSets, TLC

\* Bounds of the model.
MaxReq == 3     \* longest request list
MaxLiveReq == 2 \* longest request list followed under fair scheduling
MaxAsyncReq == 2 \* longest request list of an async call followed task by task
MaxZipThreads == 2  \* threads calling the ZipManager at once
MaxFolderFiles == 2 \* files in a folder handed to add_folder
MaxTreeKeys == 3    \* longest list handed to print_file_structure
MaxCpu == 2     \* largest os.cpu_count()
MaxFsReq == 2   \* longest request list of a batch followed file by file
MaxFaults == 1  \* faults the environment injects into one batch
MaxUpReq == 2   \* longest request list of an upload batch
MaxOvReq == 2   \* longest request list of one of two overlapping bulk calls
PageSize == 2   \* keys in one list_objects_v2 response (the store's MaxKeys)

Min(a, b) == IF a <= b THEN a ELSE b

Range(s) == {s[i] : i \in 1..Len(s)}

VARIABLES
    cpu,            \* os.cpu_count(), read once by S3Manager.__init__
    outcome,        \* outcome[i]: how the i-th operation of a bulk call ends
    entry,          \* the bulk entry point being executed ("none" before any)
    pool,           \* size of the thread pool running this call's operations (0: none)
    phase,          \* "idle", "running", "unwinding", "returned", "raised"
    st,             \* st[i]: "queued", "running" or "done"
    collected,      \* indices whose result the orchestrator has consumed
    success_count,
    failure_count,
    pbar,           \* the overall tqdm bar's position
    ret,            \* ret[m]: the pair the latest call in mode m returned
    execd,          \* execd[k]: executions so far of the operation for list item k
    variant,        \* which S3Manager: "earliest" (s3_utils.py), "latest" (utils/s3/s3_tools.py)
    fentry,         \* the download entry point of the batch
    local_base_path,
    keep_structure,
    list_files,     \* the requested keys (indices into KeyPool)
    pc,             \* pc[i]: where operation i stands
    full_local_path,\* full_local_path[i]: the destination operation i computed
    off,            \* off[i]: chunks operation i has written through its handle
    files,          \* the local files: path -> content
    dirs,           \* the local directories
    lastw,          \* lastw[p]: the operation that wrote to file p last
    faults,         \* faults injected so far
    steps,          \* steps[i]: the steps operation i has performed, in order
    touched,        \* touched[i]: operation i created, truncated or wrote a file
    run,            \* 1: the batch runs for the first time, 2: it is run again
    first,          \* what the first run left: its files and its counts
    bar,            \* bar[d]: the byte-progress display d: its state and its position
    lstore,         \* the keys the bucket holds
    lprefix,        \* list_files: prefix
    lext,           \* list_files: file_extension (<<>>: None)
    lstate,         \* "idle", "returned", "raised"
    lfault,         \* what list_objects_v2 raised ("none": it answered)
    lresult,        \* the list list_files returned
    uentry,         \* the upload entry point of the batch
    ubase,          \* base_object_key as the caller passed it (a string)
    ulist,          \* the local files to upload (indices into LocalPool)
    upc,            \* upc[i]: where upload operation i stands
    ukey,           \* ukey[i]: the object_key operation i was built with
    ubucket,        \* the bucket: key (a string) -> content
    ufaults,        \* faults injected so far
    ucollected,     \* upload operations whose result has been counted
    ucount,         \* <<success_count, failure_count>> of the upload call
    ustate,         \* "running", "returned"
    uret,           \* the pair the upload call returned
    oentry,         \* oentry[c]: the entry point of bulk call c (two calls, one manager)
    ooutcome,       \* ooutcome[c][i]: how operation i of call c ends
    oloop,          \* oloop[c]: the event loop (or thread) call c runs on
    ophase,         \* ophase[c]: "idle", "running", "returned"
    ost,            \* ost[c][i]: "queued", "running", "done"
    ocollected,     \* ocollected[c]: operations of call c already counted
    ocells,         \* the counter cells: cell -> <<success_count, failure_count>>
    oret,           \* oret[c]: the pair call c returned
    asy,            \* an async bulk call: its client, its tasks and their store calls
    zip,            \* the ZipManager, its archive and the threads calling it
    gui,            \* the notebook GUI: its widgets and what the latest click did
    tree            \* a call of print_file_structure

orchVars == <<cpu, outcome, entry, pool, phase, st, collected,
              success_count, failure_count, pbar, ret, execd>>

fsVars == <<variant, fentry, local_base_path, keep_structure, list_files, pc,
            full_local_path, off, files, dirs, lastw, faults,
            steps, touched, run, first, bar>>

listVars == <<lstore, lprefix, lext, lstate, lfault, lresult>>

upVars == <<uentry, ubase, ulist, upc, ukey, ubucket, ufaults, ucollected,
            ucount, ustate, uret>>

ovVars == <<oentry, ooutcome, oloop, ophase, ost, ocollected, ocells, oret>>

\* The fields of asy.
aentry == asy.aentry        \* the async entry point being executed ("none" before any)
akind == asy.akind          \* akind[i]: what the store answers task i
asession == asy.asession    \* the aioboto3 client of the call: "none", "open", "closed"
asessions == asy.asessions  \* clients the call has created
aphase == asy.aphase        \* where the coroutine of the entry point stands
apc == asy.apc              \* apc[i]: where task i stands
aclient == asy.aclient      \* aclient[i]: the client task i was created with (0: none yet)
acalls == asy.acalls        \* acalls[i]: the store calls of task i, each with the client's state then
aret == asy.aret            \* the pair the async call returned

\* The fields of zip.
zitems == zip.zitems        \* zitems[t]: the call thread t makes on the ZipManager
zpc == zip.zpc              \* zpc[t]: where thread t stands
zlock == zip.zlock          \* self._lock: the thread holding it (0: free)
zwriters == zip.zwriters    \* threads that have the archive open in mode 'w' or 'a'
archived_count == zip.archived_count  \* self.archived_count
zread == zip.zread          \* zread[t]: the value thread t loaded for "+= 1"
zentries == zip.zentries    \* members written to the archive
zleft == zip.zleft          \* zleft[t]: files of its folder thread t has still to write
zchanges == zip.zchanges    \* the threads that stored to archived_count, with the lock's holder then

\* The fields of gui.
bucket_name == gui.bucket_name          \* the bucket text field
folder_selected == gui.folder_selected  \* folder_chooser.selected
operation == gui.operation              \* the operation dropdown
s3_prefix == gui.s3_prefix              \* the prefix text field
remote == gui.remote        \* what list_files would return for the bucket: folders found or not
handler == gui.handler      \* the handler the latest click ran ("none": none)
s3calls == gui.s3calls      \* the S3Manager methods the latest click called, in order
output == gui.output        \* what the latest click left in the output area
clicked == gui.clicked      \* the operation selected at the latest click of Start Process

\* The fields of tree.
tgiven == tree.tgiven       \* the list print_file_structure was called with
tfiles == tree.tfiles       \* the caller's list object, as it is now
tidx == tree.tidx           \* files of the list already inserted
folder_structure == tree.folder_structure  \* the nested dictionary
tstate == tree.tstate       \* "called", "building", "built", "returned"

asyncVars == asy
zipVars == zip
guiVars == gui
treeVars == tree

s3Vars == <<orchVars, fsVars, listVars, upVars, ovVars>>
toolVars == <<asyncVars, zipVars, guiVars, treeVars>>

nonOrchVars == <<fsVars, listVars, upVars, ovVars, toolVars>>
nonFsVars == <<orchVars, listVars, upVars, ovVars, toolVars>>
nonListVars == <<orchVars, fsVars, upVars, ovVars, toolVars>>
nonUpVars == <<orchVars, fsVars, listVars, ovVars, toolVars>>
nonOvVars == <<orchVars, fsVars, listVars, upVars, toolVars>>
nonAsyncVars == <<s3Vars, zipVars, guiVars, treeVars>>
nonZipVars == <<s3Vars, asyncVars, guiVars, treeVars>>
nonGuiVars == <<s3Vars, asyncVars, zipVars, treeVars>>
nonTreeVars == <<s3Vars, asyncVars, zipVars, guiVars>>

vars == <<s3Vars, toolVars>>

----------------------------------------------------------------------------
(* The manager and its entry points                                        *)

PooledEntries == {"download_files", "upload_files"}
AsyncEntries  == {"async_download_files", "async_upload_files"}
HybridEntries == {"hybrid_download_files", "hybrid_upload_files"}
LegacyEntries == {"parallel_download"}
BulkEntries   == PooledEntries \cup AsyncEntries \cup HybridEntries
Entries       == BulkEntries \cup LegacyEntries

Modes == {"pooled", "async", "hybrid"}

ModeOf(e) ==
    CASE e \in PooledEntries -> "pooled"
      [] e \in AsyncEntries  -> "async"
      [] e \in HybridEntries -> "hybrid"
      [] OTHER               -> "legacy"

\* An operation returns a true value, returns a false value, or raises an
\* Exception.
Outcomes == {"true", "false", "raise"}

\* A task or future awaited by gather can also end cancelled: gather then
\* puts an asyncio.CancelledError (a BaseException, not an Exception) in
\* its result list.
GatherOutcomes == Outcomes \cup {"cancelled"}

NoRet == <<>>

\* self.max_threads = os.cpu_count()
max_threads == cpu

\* Config(max_pool_connections=self.max_threads * 2)
max_pool_connections == max_threads * 2

\* loop.run_in_executor(None, ...): the event loop's default executor, a
\* ThreadPoolExecutor() built without max_workers, which the standard
\* library sizes min(32, os.cpu_count() + 4).
DefaultExecutorWorkers == Min(32, cpu + 4)

\* parallel_download(..., max_workers: int = 10): the default, or a single
\* worker.
MaxWorkersChoices == {1, 10}

N == Len(outcome)

\* A request list that is never empty.
OpsAtLeastOne == 1..(IF N = 0 THEN 1 ELSE N)

Ops == 1..N

Queued  == {i \in Ops : st[i] = "queued"}
Running == {i \in Ops : st[i] = "running"}
Done    == {i \in Ops : st[i] = "done"}
InFlight == Cardinality(Running)

\* The operations of a call are handed to the pool (executor.submit in list
\* order, a FIFO work queue) or to the event loop (tasks created in list
\* order): the next one to start is the first still waiting.
NextQueued == CHOOSE i \in Queued : \A j \in Queued : i <= j

\* A pool whose workers take one work item each and are never reused.
CanStartNoReuse ==
    \/ ModeOf(entry) = "async"
    \/ Cardinality(Running \cup Done) < pool

\* How many operations the executor of the call lets run at once; gather
\* starts every task (no semaphore).
CanStart ==
    \/ ModeOf(entry) = "async"
    \/ InFlight < pool

\* The operation built for list item i of n takes the item it was built
\* with, if closures looked the loop variable up when they run: the last.
LateBoundItem(n, i) == n

\* operations = [lambda f=file: ... for file in list_files] (the default
\* argument binds the item), coroutines and run_in_executor calls created
\* with the item as argument: operation i works on list item i.
BoundItem(n, i) == i

\* An overall bar updated after the counting, outside any finally clause.
PbarUpdateNoFinally(r, p) == IF r = "raise" THEN p ELSE p + 1

\* finally: pbar.update(1)
PbarUpdate(r, p) == p + 1

\* A collection loop whose except branch forgets failure_count += 1.
PooledCountDropsRaise(r, s, f) ==
    IF r = "raise" THEN <<s, f>>
    ELSE IF r = "true" THEN <<s + 1, f>>
    ELSE <<s, f + 1>>

\* A collection loop in which a False result turns the successes counted so
\* far into failures: the pair depends on the order of collection.
PooledCountOrderDependent(r, s, f) ==
    IF r = "raise" THEN <<s, f + 1>>
    ELSE IF r = "true" THEN <<s + 1, f>>
    ELSE <<0, s + f + 1>>

\* _process_operations: result = future.result(); if result: success += 1
\* else failure += 1; except Exception: failure += 1.
PooledCount(r, s, f) ==
    IF r = "raise" THEN <<s, f + 1>>
    ELSE IF r = "true" THEN <<s + 1, f>>
    ELSE <<s, f + 1>>

\* isinstance(result, Exception)
IsException(r) == r = "raise"

\* bool(result): an exception object is a true value.
Truthy(r) == r # "false"

\* A gather loop that tests only "not result".
GatherCountTruthOnly(r, s, f) ==
    IF ~Truthy(r) THEN <<s, f + 1>> ELSE <<s + 1, f>>

\* The loop after asyncio.gather(*tasks, return_exceptions=True):
\* if isinstance(result, Exception) or not result: failure += 1 else success += 1.
GatherCount(r, s, f) ==
    IF IsException(r) \/ ~Truthy(r) THEN <<s, f + 1>> ELSE <<s + 1, f>>


----------------------------------------------------------------------------
(* Paths (pathlib): an anchor and a sequence of segments; a segment is a   *)
(* sequence of string pieces, so that a suffix can be appended to a name.  *)

Seg(s) == <<s>>
Rel(parts) == [anchor |-> FALSE, parts |-> parts]
Abs(parts) == [anchor |-> TRUE, parts |-> parts]

\* p / q: an anchored right operand replaces the left one.
Join(p, q) ==
    IF q.anchor THEN q
    ELSE [anchor |-> p.anchor, parts |-> p.parts \o q.parts]

\* object_key.relative_to(object_key.anchor)
RelativeToAnchor(k) == Rel(k.parts)

\* object_key.name, as a one-segment relative path
Name(k) == Rel(<<k.parts[Len(k.parts)]>>)

\* f"{object_key.name}_{unique_suffix}"
NameWithSuffix(k, sfx) == Rel(<<k.parts[Len(k.parts)] \o <<"_", sfx>> >>)

\* path.parent
Parent(p) == [p EXCEPT !.parts = SubSeq(p.parts, 1, Len(p.parts) - 1)]

\* p itself and every directory above it, the root excluded
SelfAndParents(p) ==
    {[p EXCEPT !.parts = SubSeq(p.parts, 1, n)] : n \in 1..Len(p.parts)}

\* q lies under directory p
IsUnder(p, q) ==
    /\ q.anchor = p.anchor
    /\ Len(q.parts) > Len(p.parts)
    /\ SubSeq(q.parts, 1, Len(p.parts)) = p.parts

----------------------------------------------------------------------------
(* The object store and the requests                                       *)

\* The keys a batch may ask for. The first three are stored; the first two
\* share their final segment; the third is the first with a leading slash
\* (another key of the store); the fourth and the fifth are not stored, the
\* fifth being the second with a leading slash.
KeyPool == <<
    Rel(<<Seg("docs"), Seg("a.pdf")>>),
    Rel(<<Seg("img"), Seg("a.pdf")>>),
    Abs(<<Seg("docs"), Seg("a.pdf")>>),
    Rel(<<Seg("docs"), Seg("missing.txt")>>),
    Abs(<<Seg("img"), Seg("a.pdf")>>) >>

KeyIds == 1..Len(KeyPool)
Stored == {1, 2, 3}

\* The object's length in chunks, and its content: chunk j of key k.
Size(k) == IF k = 1 THEN 2 ELSE 1
Content(k) == [j \in 1..Size(k) |-> <<k, j>>]

BasePaths == {Abs(<<Seg("tmp"), Seg("out")>>), Rel(<<Seg("out")>>)}

\* uuid.uuid4().hex[:8]
Suffixes == {"u1", "u2"}

\* The download entry points: the bulk ones, and the earliest variant's
\* single-file download_file called once per key.
BatchEntries == {"download_files", "parallel_download"}
FsEntries == BatchEntries \cup {"download_file"}

NoPath == Rel(<<>>)

FOps == 1..Len(list_files)
KeyOf(i) == KeyPool[list_files[i]]

\* A byte position never written (a hole) reads as zero.
Hole == <<0, 0>>

\* The exceptions the steps of a download can end with.
Exceptions == {"ClientError", "OSError", "ConnectionError"}

\* What the except clause of the single-file download catches:
\* "except Exception" in the latest variant, "except ClientError" in the earliest.
Catches(exc) ==
    IF variant = "latest" THEN exc \in Exceptions ELSE exc = "ClientError"

\* _download_file_single: the destination of one key.
DestPath(base, k, keep) ==
    IF keep THEN Join(base, RelativeToAnchor(k)) ELSE Join(base, Name(k))

\* s3_utils.download_file: the destination of one key under local_path.
LegacyDestPath(local_path, k, keep, sfx) ==
    IF keep THEN Join(local_path, k) ELSE Join(local_path, NameWithSuffix(k, sfx))

\* parallel_download: local_path = local_base_path / file_path.name, handed
\* to download_file as its base directory (keep_structure left at True).
ParallelDownloadDest(base, k) ==
    LegacyDestPath(Join(base, Name(k)), k, TRUE, "u1")

Terminal == {"ret_true", "ret_false", "ret_none", "raised"}

\* A single-file download of the latest variant that opens the local file
\* before asking the store for the object's size.
NextStepOpenFirst(step) ==
    CASE step = "init"  -> "mkdir"
      [] step = "mkdir" -> "open"
      [] step = "open"  -> "head"
      [] OTHER          -> "stream"

\* _download_file_single, the statements of the try block in order: the path,
\* parent.mkdir, head_object, open, download_fileobj.
NextStep(step) ==
    CASE step = "init"  -> "mkdir"
      [] step = "mkdir" -> "head"
      [] step = "head"  -> "open"
      [] OTHER          -> "stream"

\* A byte-progress display: not created yet.
NoBar == [state |-> "none", n |-> 0]

\* One display for every operation of the batch.
SharedBar(i) == 1

\* _with_progress_bar: "with tqdm(...) as pbar" makes a new display in every
\* call, and the callback handed to the store client closes over that pbar:
\* the display of operation i.
BarOf(i) == i

\* The record of steps, a step of several turns (streaming) recorded once.
AppendStep(s, step) ==
    IF Len(s) > 0 /\ s[Len(s)] = step THEN s ELSE Append(s, step)

\* What _process_operations returns for the batch: the operations that
\* returned True, and those that returned False or raised.
BatchResult ==
    <<Cardinality({i \in FOps : pc[i] = "ret_true"}),
      Cardinality({i \in FOps : pc[i] \in {"ret_false", "raised"}})>>

BatchDone == \A i \in FOps : pc[i] \in Terminal

\* An except clause that reports the failed operation as a success.
AfterExceptionReturnsTrue(exc) == "ret_true"

\* The state an operation ends in when one of its steps raises exc.
AfterException(exc) ==
    IF Catches(exc)
    THEN (IF variant = "latest" THEN "ret_false" ELSE "ret_none")
    ELSE "raised"

\* mkdir(parents=True, exist_ok=True) fails when a segment of the directory
\* is an existing file.
MkdirBlocked(d) == \E a \in SelfAndParents(d) : a \in DOMAIN files

\* Writing chunk c at position n of content s (past the end: a hole between).
WriteAt(s, n, c) ==
    [j \in 1..(IF n > Len(s) THEN n ELSE Len(s)) |->
        IF j = n THEN c ELSE IF j <= Len(s) THEN s[j] ELSE Hole]

FsUnused ==
    /\ variant = "none"
    /\ fentry = "none"
    /\ local_base_path = Rel(<<>>)
    /\ keep_structure = TRUE
    /\ list_files = <<>>
    /\ pc = <<>>
    /\ full_local_path = <<>>
    /\ off = <<>>
    /\ files = [p \in {} |-> <<>>]
    /\ dirs = {}
    /\ lastw = [p \in {} |-> 0]
    /\ faults = 0
    /\ steps = <<>>
    /\ touched = <<>>
    /\ run = 1
    /\ first = NoRet
    /\ bar = <<>>

ListUnused ==
    /\ lstore = {}
    /\ lprefix = <<>>
    /\ lext = <<>>
    /\ lstate = "idle"
    /\ lfault = "none"
    /\ lresult = <<>>

UpUnused ==
    /\ uentry = "none"
    /\ ubase = <<>>
    /\ ulist = <<>>
    /\ upc = <<>>
    /\ ukey = <<>>
    /\ ubucket = [k \in {} |-> <<>>]
    /\ ufaults = 0
    /\ ucollected = {}
    /\ ucount = <<0, 0>>
    /\ ustate = "running"
    /\ uret = NoRet

OvUnused ==
    /\ oentry = <<>>
    /\ ooutcome = <<>>
    /\ oloop = <<>>
    /\ ophase = <<>>
    /\ ost = <<>>
    /\ ocollected = <<>>
    /\ ocells = <<>>
    /\ oret = <<>>

OrchUnused ==
    /\ cpu = 1
    /\ outcome = <<>>
    /\ entry = "none"
    /\ pool = 0
    /\ phase = "idle"
    /\ st = <<>>
    /\ collected = {}
    /\ success_count = 0
    /\ failure_count = 0
    /\ pbar = 0
    /\ ret = [m \in Modes |-> NoRet]
    /\ execd = <<>>

AsyncUnused ==
    asy = [aentry |-> "none", akind |-> <<>>, asession |-> "none",
           asessions |-> 0, aphase |-> "idle", apc |-> <<>>, aclient |-> <<>>,
           acalls |-> <<>>, aret |-> NoRet]

ZipUnused ==
    zip = [zitems |-> <<>>, zpc |-> <<>>, zlock |-> 0, zwriters |-> {},
           archived_count |-> 0, zread |-> <<>>, zentries |-> 0,
           zleft |-> <<>>, zchanges |-> {}]

GuiUnused ==
    gui = [bucket_name |-> "", folder_selected |-> FALSE,
           operation |-> "Upload", s3_prefix |-> "", remote |-> "none",
           handler |-> "none", s3calls |-> <<>>, output |-> "empty",
           clicked |-> "none"]

TreeUnused ==
    tree = [tgiven |-> <<>>, tfiles |-> <<>>, tidx |-> 0,
            folder_structure |-> <<>>, tstate |-> "built"]

S3Unused == OrchUnused /\ FsUnused /\ ListUnused /\ UpUnused /\ OvUnused

ToolsUnused == AsyncUnused /\ ZipUnused /\ GuiUnused /\ TreeUnused

----------------------------------------------------------------------------
(* Actions of the bulk orchestrators                                       *)

Init ==
    /\ cpu \in 1..MaxCpu
    /\ outcome \in UNION {[1..n -> Outcomes] : n \in 0..MaxReq}
    /\ entry = "none"
    /\ pool = 0
    /\ phase = "idle"
    /\ st = [i \in 1..Len(outcome) |-> "queued"]
    /\ collected = {}
    /\ success_count = 0
    /\ failure_count = 0
    /\ pbar = 0
    /\ ret = [m \in Modes |-> NoRet]
    /\ execd = [i \in 1..Len(outcome) |-> 0]
    /\ FsUnused
    /\ ListUnused
    /\ UpUnused
    /\ OvUnused
    /\ ToolsUnused

\* The caller enters a bulk entry point: the counters are fresh locals, the
\* operations are built from the request list and submitted.
Call(e, mw) ==
    /\ phase \in {"idle", "returned", "raised"}
    /\ entry' = e
    /\ pool' = CASE ModeOf(e) = "pooled" -> max_threads
                 [] ModeOf(e) = "hybrid" -> DefaultExecutorWorkers
                 [] ModeOf(e) = "legacy" -> mw
                 [] OTHER -> 0
    /\ phase' = "running"
    /\ st' = [i \in Ops |-> "queued"]
    /\ collected' = {}
    /\ success_count' = 0
    /\ failure_count' = 0
    /\ pbar' = 0
    /\ execd' = [i \in Ops |-> 0]
    /\ UNCHANGED <<cpu, outcome, ret>>
    /\ UNCHANGED nonOrchVars

\* A worker thread takes the next work item, or the event loop runs the next
\* task to its first suspension.
Start ==
    /\ phase \in {"running", "unwinding"}
    /\ Queued # {}
    /\ CanStart
    /\ st' = [st EXCEPT ![NextQueued] = "running"]
    /\ execd' = [execd EXCEPT ![BoundItem(N, NextQueued)] = @ + 1]
    /\ UNCHANGED <<cpu, outcome, entry, pool, phase, collected,
                   success_count, failure_count, pbar, ret>>
    /\ UNCHANGED nonOrchVars

\* A running operation ends; its result or exception is stored in its future.
Finish(i) ==
    /\ phase \in {"running", "unwinding"}
    /\ st[i] = "running"
    /\ st' = [st EXCEPT ![i] = "done"]
    /\ UNCHANGED <<execd, cpu, outcome, entry, pool, phase, collected,
                   success_count, failure_count, pbar, ret>>
    /\ UNCHANGED nonOrchVars

\* _process_operations: one turn of "for future in as_completed(futures)".
CollectPooled(i) ==
    /\ phase = "running"
    /\ ModeOf(entry) = "pooled"
    /\ i \in Done \ collected
    /\ collected' = collected \cup {i}
    /\ success_count' = PooledCount(outcome[i], success_count, failure_count)[1]
    /\ failure_count' = PooledCount(outcome[i], success_count, failure_count)[2]
    /\ pbar' = PbarUpdate(outcome[i], pbar)
    /\ UNCHANGED <<execd, cpu, outcome, entry, pool, phase, st, ret>>
    /\ UNCHANGED nonOrchVars

\* The async and hybrid entry points: gather returns once every task is done;
\* one turn of "for result in results", in list order.
CollectGather(i) ==
    /\ phase = "running"
    /\ ModeOf(entry) \in {"async", "hybrid"}
    /\ Done = Ops
    /\ i \in Ops \ collected
    /\ \A j \in Ops \ collected : i <= j
    /\ collected' = collected \cup {i}
    /\ success_count' = GatherCount(outcome[i], success_count, failure_count)[1]
    /\ failure_count' = GatherCount(outcome[i], success_count, failure_count)[2]
    /\ UNCHANGED <<execd, cpu, outcome, entry, pool, phase, st, pbar, ret>>
    /\ UNCHANGED nonOrchVars

\* parallel_download: one turn of "for future in tqdm(as_completed(futures))":
\* future.result() re-raises what download_file let escape, which ends the
\* loop and leaves the with block.
CollectLegacy(i) ==
    /\ phase = "running"
    /\ ModeOf(entry) = "legacy"
    /\ i \in Done \ collected
    /\ collected' = collected \cup {i}
    /\ pbar' = pbar + 1
    /\ phase' = IF outcome[i] = "raise" THEN "unwinding" ELSE "running"
    /\ UNCHANGED <<execd, cpu, outcome, entry, pool, st,
                   success_count, failure_count, ret>>
    /\ UNCHANGED nonOrchVars

\* The collection loop is over: the with blocks exit and the call returns.
Return ==
    /\ phase = "running"
    /\ collected = Ops
    /\ phase' = "returned"
    /\ ret' = IF entry \in BulkEntries
              THEN [ret EXCEPT ![ModeOf(entry)] = <<success_count, failure_count>>]
              ELSE ret
    /\ UNCHANGED <<execd, cpu, outcome, entry, pool, st, collected,
                   success_count, failure_count, pbar>>
    /\ UNCHANGED nonOrchVars

\* An executor shut down without waiting: the exception leaves at once.
RaiseNoWait ==
    /\ phase = "unwinding"
    /\ phase' = "raised"
    /\ UNCHANGED <<execd, cpu, outcome, entry, pool, st, collected,
                   success_count, failure_count, pbar, ret>>
    /\ UNCHANGED nonOrchVars

\* ThreadPoolExecutor.__exit__ is shutdown(wait=True): the exception leaves
\* parallel_download once every submitted operation has run.
Raise ==
    /\ phase = "unwinding"
    /\ Done = Ops
    /\ phase' = "raised"
    /\ UNCHANGED <<execd, cpu, outcome, entry, pool, st, collected,
                   success_count, failure_count, pbar, ret>>
    /\ UNCHANGED nonOrchVars

Next ==
    \/ \E e \in Entries, mw \in MaxWorkersChoices : Call(e, mw)
    \/ Start
    \/ \E i \in Ops : Finish(i)
    \/ \E i \in Ops : CollectPooled(i)
    \/ \E i \in Ops : CollectGather(i)
    \/ \E i \in Ops : CollectLegacy(i)
    \/ Return
    \/ Raise

Spec == Init /\ [][Next]_vars

\* One call followed to its end under the scheduling the code relies on: an
\* idle worker takes the next work item and the event loop runs every ready
\* task (Start), every transfer that was started ends (Finish, the
\* hypothesis of the termination claim), and the calling thread goes on with
\* its loop and its return whenever it can. A call starts from fresh
\* counters, a fresh executor and fresh tasks, so what it does is the same
\* after an earlier call as on a new manager.
InitLive ==
    /\ Init
    /\ Len(outcome) <= MaxLiveReq

NextLive ==
    \/ \E e \in Entries, mw \in MaxWorkersChoices : phase = "idle" /\ Call(e, mw)
    \/ Start
    \/ \E i \in Ops : Finish(i)
    \/ \E i \in Ops : CollectPooled(i)
    \/ \E i \in Ops : CollectGather(i)
    \/ \E i \in Ops : CollectLegacy(i)
    \/ Return
    \/ Raise

Fairness ==
    /\ WF_vars(Start)
    /\ \A i \in 1..MaxLiveReq : WF_vars(i \in Ops /\ Finish(i))
    /\ WF_vars(\E i \in Ops : CollectPooled(i))
    /\ WF_vars(\E i \in Ops : CollectGather(i))
    /\ WF_vars(\E i \in Ops : CollectLegacy(i))
    /\ WF_vars(Return)
    /\ WF_vars(Raise)

SpecLive == InitLive /\ [][NextLive]_vars /\ Fairness

\* The async and hybrid entry points when tasks can also end cancelled.
InitCancel ==
    /\ cpu \in 1..MaxCpu
    /\ outcome \in UNION {[1..n -> GatherOutcomes] : n \in 0..MaxReq}
    /\ entry = "none"
    /\ pool = 0
    /\ phase = "idle"
    /\ st = [i \in 1..Len(outcome) |-> "queued"]
    /\ collected = {}
    /\ success_count = 0
    /\ failure_count = 0
    /\ pbar = 0
    /\ ret = [m \in Modes |-> NoRet]
    /\ execd = [i \in 1..Len(outcome) |-> 0]
    /\ FsUnused
    /\ ListUnused
    /\ UpUnused
    /\ OvUnused
    /\ ToolsUnused

NextCancel ==
    \/ \E e \in AsyncEntries \cup HybridEntries : Call(e, 0)
    \/ Start
    \/ \E i \in Ops : Finish(i)
    \/ \E i \in Ops : CollectGather(i)
    \/ Return

SpecCancel == InitCancel /\ [][NextCancel]_vars


----------------------------------------------------------------------------
(* Actions of the single-file downloads of one batch                       *)

InitFs ==
    /\ OrchUnused
    /\ ListUnused
    /\ UpUnused
    /\ OvUnused
    /\ ToolsUnused
    /\ variant \in {"earliest", "latest"}
    /\ fentry \in (IF variant = "latest" THEN {"download_files"}
                   ELSE {"download_file", "parallel_download"})
    /\ local_base_path \in BasePaths
    /\ keep_structure \in (IF fentry = "parallel_download" THEN {TRUE} ELSE BOOLEAN)
    /\ list_files \in {l \in UNION {[1..n -> KeyIds] : n \in 1..MaxFsReq} :
                         \A a \in DOMAIN l, b \in DOMAIN l : l[a] = l[b] => a = b}
    /\ pc = [i \in 1..Len(list_files) |-> "init"]
    /\ full_local_path = [i \in 1..Len(list_files) |-> NoPath]
    /\ off = [i \in 1..Len(list_files) |-> 0]
    /\ files = [p \in {} |-> <<>>]
    /\ dirs = {}
    /\ lastw = [p \in {} |-> 0]
    /\ faults = 0
    /\ steps = [i \in 1..Len(list_files) |-> <<>>]
    /\ touched = [i \in 1..Len(list_files) |-> FALSE]
    /\ run = 1
    /\ first = NoRet
    /\ bar = [d \in 1..Len(list_files) |-> NoBar]

\* The destination the entry point's code computes for operation i.
ComputedDest(i, sfx) ==
    CASE fentry = "download_files" ->
            DestPath(local_base_path, KeyOf(i), keep_structure)
      [] fentry = "download_file" ->
            LegacyDestPath(local_base_path, KeyOf(i), keep_structure, sfx)
      [] OTHER ->
            ParallelDownloadDest(local_base_path, KeyOf(i))

\* The first lines of the try block: full_local_path is computed.
FsPath(i, sfx) ==
    /\ pc[i] = "init"
    /\ full_local_path' = [full_local_path EXCEPT ![i] = ComputedDest(i, sfx)]
    /\ pc' = [pc EXCEPT ![i] = NextStep("init")]
    /\ UNCHANGED <<variant, fentry, local_base_path, keep_structure, list_files,
                   off, files, dirs, lastw, faults, steps, touched, run, first>>
    /\ UNCHANGED bar
    /\ UNCHANGED nonFsVars

\* full_local_path.parent.mkdir(parents=True, exist_ok=True)
FsMkdir(i) ==
    /\ pc[i] = "mkdir"
    /\ IF MkdirBlocked(Parent(full_local_path[i]))
       THEN /\ pc' = [pc EXCEPT ![i] = AfterException("OSError")]
            /\ dirs' = dirs
       ELSE /\ pc' = [pc EXCEPT ![i] =
                        IF variant = "latest" THEN NextStep("mkdir") ELSE "download"]
            /\ dirs' = dirs \cup SelfAndParents(Parent(full_local_path[i]))
    /\ steps' = [steps EXCEPT ![i] = AppendStep(@, "mkdir")]
    /\ UNCHANGED <<variant, fentry, local_base_path, keep_structure, list_files,
                   full_local_path, off, files, lastw, faults, touched, run, first>>
    /\ UNCHANGED bar
    /\ UNCHANGED nonFsVars

\* self.s3_client.head_object(Bucket=bucket_name, Key=str(object_key))
FsHead(i) ==
    /\ pc[i] = "head"
    /\ pc' = [pc EXCEPT ![i] = IF list_files[i] \in Stored THEN NextStep("head")
                               ELSE AfterException("ClientError")]
    /\ steps' = [steps EXCEPT ![i] = AppendStep(@, "head")]
    /\ UNCHANGED <<variant, fentry, local_base_path, keep_structure, list_files,
                   full_local_path, off, files, dirs, lastw, faults,
                   touched, run, first>>
    /\ UNCHANGED bar
    /\ UNCHANGED nonFsVars

\* open(full_local_path, "wb"): the file is created or truncated; inside the
\* with block _with_progress_bar makes the operation's byte display.
FsOpen(i) ==
    /\ pc[i] = "open"
    /\ IF full_local_path[i] \in dirs
       THEN /\ pc' = [pc EXCEPT ![i] = AfterException("OSError")]
            /\ files' = files
            /\ touched' = touched
            /\ bar' = bar
       ELSE /\ pc' = [pc EXCEPT ![i] = NextStep("open")]
            /\ files' = [p \in DOMAIN files \cup {full_local_path[i]} |->
                            IF p = full_local_path[i] THEN <<>> ELSE files[p]]
            /\ touched' = [touched EXCEPT ![i] = TRUE]
            /\ bar' = [bar EXCEPT ![BarOf(i)] = [state |-> "open", n |-> 0]]
    /\ off' = [off EXCEPT ![i] = 0]
    /\ steps' = [steps EXCEPT ![i] = AppendStep(@, "open")]
    /\ UNCHANGED <<variant, fentry, local_base_path, keep_structure, list_files,
                   full_local_path, dirs, lastw, faults, run, first>>
    /\ UNCHANGED nonFsVars

\* download_fileobj: the next chunk of the object is written through the
\* operation's own handle, at the handle's own position.
FsWrite(i) ==
    /\ pc[i] = "stream"
    /\ off[i] < Size(list_files[i])
    /\ files' = [files EXCEPT ![full_local_path[i]] =
                    WriteAt(@, off[i] + 1, Content(list_files[i])[off[i] + 1])]
    /\ off' = [off EXCEPT ![i] = @ + 1]
    /\ lastw' = [p \in DOMAIN lastw \cup {full_local_path[i]} |->
                    IF p = full_local_path[i] THEN i ELSE lastw[p]]
    /\ steps' = [steps EXCEPT ![i] = AppendStep(@, "stream")]
    /\ touched' = [touched EXCEPT ![i] = TRUE]
    /\ UNCHANGED <<variant, fentry, local_base_path, keep_structure, list_files,
                   pc, full_local_path, dirs, faults, run, first>>
    /\ bar' = [bar EXCEPT ![BarOf(i)].n = @ + 1]
    /\ UNCHANGED nonFsVars

\* The object is written out: the with blocks close the display and the
\* file, return True.
FsClose(i) ==
    /\ pc[i] = "stream"
    /\ off[i] = Size(list_files[i])
    /\ pc' = [pc EXCEPT ![i] = "ret_true"]
    /\ UNCHANGED <<variant, fentry, local_base_path, keep_structure, list_files,
                   full_local_path, off, files, dirs, lastw, faults,
                   steps, touched, run, first>>
    /\ bar' = [bar EXCEPT ![BarOf(i)].state = "closed"]
    /\ UNCHANGED nonFsVars

\* s3_utils.download_file: self.s3_client.download_file(bucket, key, path),
\* which puts the whole object at the path or raises; then the function ends
\* without a return value.
FsDownload(i) ==
    /\ pc[i] = "download"
    /\ IF list_files[i] \notin Stored
       THEN /\ pc' = [pc EXCEPT ![i] = AfterException("ClientError")]
            /\ UNCHANGED <<files, lastw, touched>>
       ELSE IF full_local_path[i] \in dirs
       THEN /\ pc' = [pc EXCEPT ![i] = AfterException("OSError")]
            /\ UNCHANGED <<files, lastw, touched>>
       ELSE /\ pc' = [pc EXCEPT ![i] = "ret_none"]
            /\ files' = [p \in DOMAIN files \cup {full_local_path[i]} |->
                            IF p = full_local_path[i]
                            THEN Content(list_files[i]) ELSE files[p]]
            /\ lastw' = [p \in DOMAIN lastw \cup {full_local_path[i]} |->
                            IF p = full_local_path[i] THEN i ELSE lastw[p]]
            /\ touched' = [touched EXCEPT ![i] = TRUE]
    /\ steps' = [steps EXCEPT ![i] = AppendStep(@, "download")]
    /\ UNCHANGED <<variant, fentry, local_base_path, keep_structure, list_files,
                   full_local_path, off, dirs, faults, run, first>>
    /\ UNCHANGED bar
    /\ UNCHANGED nonFsVars

\* The exceptions the environment can make a step raise: the local file
\* system (permissions, disk) under mkdir and open, the store or the network
\* under head and while streaming.
FaultsAt(step) ==
    CASE step \in {"mkdir", "open"} -> {"OSError"}
      [] step \in {"head", "stream", "download"} -> {"ClientError", "ConnectionError"}
      [] OTHER -> {}

\* An except clause that also removes the file a failed download left.
FsFaultWithCleanup(i, exc) ==
    /\ faults < MaxFaults
    /\ exc \in FaultsAt(pc[i])
    /\ pc' = [pc EXCEPT ![i] = AfterException(exc)]
    /\ faults' = faults + 1
    /\ steps' = [steps EXCEPT ![i] = AppendStep(@, pc[i])]
    /\ files' = IF pc[i] = "stream"
                THEN [p \in DOMAIN files \ {full_local_path[i]} |-> files[p]]
                ELSE files
    /\ bar' = IF pc[i] = "stream"
               THEN [bar EXCEPT ![BarOf(i)].state = "closed"]
               ELSE bar
    /\ UNCHANGED <<variant, fentry, local_base_path, keep_structure, list_files,
                   full_local_path, off, dirs, lastw, touched, run, first>>
    /\ UNCHANGED nonFsVars

\* A step of operation i raises exc; the operation's except clause decides
\* (leaving the with blocks closes the display and the file).
FsFault(i, exc) ==
    /\ faults < MaxFaults
    /\ exc \in FaultsAt(pc[i])
    /\ pc' = [pc EXCEPT ![i] = AfterException(exc)]
    /\ faults' = faults + 1
    /\ steps' = [steps EXCEPT ![i] = AppendStep(@, pc[i])]
    /\ UNCHANGED <<variant, fentry, local_base_path, keep_structure, list_files,
                   full_local_path, off, files, dirs, lastw, touched, run, first>>
    /\ bar' = IF pc[i] = "stream"
               THEN [bar EXCEPT ![BarOf(i)].state = "closed"]
               ELSE bar
    /\ UNCHANGED nonFsVars

\* The caller runs the same download_files batch (keep_structure=True) a
\* second time against the same store and the same local directory, after
\* a first run in which no fault was injected.
FsRerun ==
    /\ run = 1
    /\ faults = 0
    /\ fentry = "download_files"
    /\ keep_structure
    /\ BatchDone
    /\ run' = 2
    /\ first' = [files |-> files, result |-> BatchResult]
    /\ pc' = [i \in FOps |-> "init"]
    /\ full_local_path' = [i \in FOps |-> NoPath]
    /\ off' = [i \in FOps |-> 0]
    /\ steps' = [i \in FOps |-> <<>>]
    /\ touched' = [i \in FOps |-> FALSE]
    /\ UNCHANGED <<variant, fentry, local_base_path, keep_structure, list_files,
                   files, dirs, lastw, faults>>
    /\ bar' = [d \in FOps |-> NoBar]
    /\ UNCHANGED nonFsVars

NextFs ==
    \/ \E i \in FOps, sfx \in Suffixes : FsPath(i, sfx)
    \/ \E i \in FOps : FsMkdir(i)
    \/ \E i \in FOps : FsHead(i)
    \/ \E i \in FOps : FsOpen(i)
    \/ \E i \in FOps : FsWrite(i)
    \/ \E i \in FOps : FsClose(i)
    \/ \E i \in FOps : FsDownload(i)
    \/ \E i \in FOps, exc \in Exceptions : FsFault(i, exc)
    \/ FsRerun

SpecFs == InitFs /\ [][NextFs]_vars

----------------------------------------------------------------------------
(* Claims about the bulk orchestrators (checked under Spec)                *)

\* C1: every pair returned by one of the six bulk entry points satisfies
\* success_count + failure_count = number of requests, whatever the
\* interleaving and whatever each operation did (true, false, raised).
C1_CountConservation ==
    /\ (phase = "returned" /\ entry \in BulkEntries)
          => success_count + failure_count = N
    /\ \A m \in Modes : ret[m] # NoRet => ret[m][1] + ret[m][2] = N

C1_Witness ==
    /\ phase = "returned"
    /\ entry = "download_files"
    /\ N = 3
    /\ Range(outcome) = Outcomes
    /\ ret["pooled"] = <<1, 2>>

\* C22: in pooled mode the results are collected in completion order, and the
\* counters depend only on which operations have been collected, never on
\* the order: at every point they are the numbers of True and of other
\* outcomes among the collected operations, and the pair returned is that
\* of the whole list.
C22_OrderIndependence ==
    /\ ModeOf(entry) = "pooled" =>
          /\ success_count =
                Cardinality({i \in collected : outcome[i] = "true"})
          /\ failure_count =
                Cardinality({i \in collected : outcome[i] # "true"})
    /\ ret["pooled"] # NoRet =>
          ret["pooled"] = <<Cardinality({i \in Ops : outcome[i] = "true"}),
                            Cardinality({i \in Ops : outcome[i] # "true"})>>

C22_Witness ==
    /\ ModeOf(entry) = "pooled"
    /\ phase = "running"
    /\ outcome = <<"false", "raise", "true">>
    /\ collected = {3}
    /\ st[1] = "running"
    /\ success_count = 1
    /\ ret["pooled"] = <<1, 2>>

\* C25: when a bulk call has returned, or parallel_download has let an
\* exception out, no operation of the call is running or still waiting to
\* run: every operation that was started has finished.
C25_Quiescence ==
    phase \in {"returned", "raised"} =>
        /\ Running = {}
        /\ \A i \in Ops : execd[i] > 0 => st[i] = "done"
        /\ phase = "raised" => Queued = {}

C25_Witness ==
    /\ phase = "raised"
    /\ entry = "parallel_download"
    /\ N = 3
    /\ Done = Ops
    /\ collected # Ops

\* C26: if every transfer that is started ends, every call of a bulk entry
\* point returns its counts, also when the list is longer than the pool has
\* workers; and no call returns before the last of its operations has ended
\* (there is no timeout and no cancellation in the orchestrator).
C26_Termination ==
    /\ [](phase = "returned" => Done = Ops /\ collected = Ops)
    /\ (phase = "running" /\ entry \in BulkEntries)
          ~> (phase = "returned" /\ entry \in BulkEntries
                                   /\ ret[ModeOf(entry)] # NoRet)

C26_Witness ==
    /\ phase = "returned"
    /\ entry = "download_files"
    /\ cpu = 1
    /\ pool = 1
    /\ N = 2
    /\ ret["pooled"] # NoRet

\* C27: a bulk call with an empty request list, in every mode, has no
\* operation to start and runs none, advances no display, and returns
\* (0, 0).
C27_EmptyBatch ==
    N = 0 =>
        /\ st = <<>>
        /\ execd = <<>>
        /\ pbar = 0
        /\ success_count = 0 /\ failure_count = 0
        /\ \A m \in Modes : ret[m] \in {NoRet, <<0, 0>>}
        /\ (phase = "returned" /\ entry \in BulkEntries)
              => ret[ModeOf(entry)] = <<0, 0>>

C27_Witness ==
    /\ N = 0
    /\ phase = "returned"
    /\ entry \in BulkEntries
    /\ \A m \in {"pooled", "async", "hybrid"} : ret[m] = <<0, 0>>

\* C2: when a bulk transfer ends, every operation of the request list has
\* been started, has run to completion and has been counted, also when one
\* of them raised; stated for every entry point, parallel_download included.
C2_FaultIsolation ==
    phase \in {"returned", "raised"} => (Done = Ops /\ collected = Ops)

\* C7: for one request list and one outcome per operation, the pooled, async
\* and hybrid calls return the same (success_count, failure_count).
C7_ModeEquivalence ==
    \A m1 \in Modes, m2 \in Modes :
        (ret[m1] # NoRet /\ ret[m2] # NoRet) => ret[m1] = ret[m2]

C7_Witness ==
    /\ \A m \in Modes : ret[m] # NoRet
    /\ Range(outcome) = Outcomes
    /\ phase = "returned"

\* C15: in every mode an operation adds one to success_count exactly when
\* it returned success; one that returned false or ended with an exception,
\* a cancelled task of the async and hybrid modes included, adds one to
\* failure_count.
C15_SuccessAccounting ==
    (phase = "returned" /\ entry \in BulkEntries) =>
        /\ success_count = Cardinality({i \in Ops : outcome[i] = "true"})
        /\ failure_count = Cardinality({i \in Ops : outcome[i] # "true"})

\* C17: a bulk call never raises to its caller once one of its operations
\* has been started.
C17_NoRaiseAfterStart ==
    phase \in {"unwinding", "raised"} => \A i \in Ops : st[i] = "queued"

\* C18: every item of the request list is executed by exactly one
\* operation, exactly once: never twice while the call runs, and once when
\* the call has ended.
C18_ExactlyOnce ==
    \A k \in DOMAIN execd :
        /\ execd[k] <= 1
        /\ phase \in {"returned", "raised"} => execd[k] = 1

C18_Witness ==
    /\ phase = "returned"
    /\ entry = "async_download_files"
    /\ N = 3
    /\ execd = <<1, 1, 1>>

\* C19: in pooled mode the overall bar advances by one per collected
\* operation, whether it succeeded, failed or raised: between two turns of
\* the collection loop it equals success_count + failure_count, and at the
\* return it equals the number of requests.
C19_OverallProgress ==
    ModeOf(entry) = "pooled" =>
        /\ pbar = success_count + failure_count
        /\ pbar = Cardinality(collected)
        /\ phase = "returned" => pbar = N

C19_Witness ==
    /\ phase = "returned"
    /\ entry = "upload_files"
    /\ N = 3
    /\ Range(outcome) = Outcomes
    /\ pbar = 3

\* C8: in every mode (pooled, async, hybrid) the number of operations in
\* flight during a bulk call never exceeds max_threads, the size of the
\* manager's worker pool.
C8_BoundedConcurrency ==
    entry \in BulkEntries => InFlight <= max_threads

\* C9: the operations using the shared synchronous client at once (the
\* pooled mode's workers, the workers of the executor the hybrid tasks are
\* bridged to) never outnumber max_pool_connections = 2 x CPU count.
C9_PoolSizing ==
    ModeOf(entry) \in {"pooled", "hybrid"} => InFlight <= max_pool_connections

----------------------------------------------------------------------------
(* Claims about the single-file operations (checked under SpecFs)          *)

\* C3: a single-file transfer never raises to its caller, in any variant of
\* the manager: whatever step fails, the operation ends by returning.
C3_NeverRaises ==
    \A i \in FOps : pc[i] # "raised"

\* C4: for every key and base path and every download entry point of every
\* variant, the destination is local_base_path / (key without its anchor)
\* with keep_structure, local_base_path / (final segment of the key) without,
\* and so lies under local_base_path.
C4_PathInvariant ==
    \A i \in FOps :
        full_local_path[i] # NoPath =>
            /\ full_local_path[i] =
                  (IF keep_structure
                   THEN [anchor |-> local_base_path.anchor,
                         parts |-> local_base_path.parts \o KeyOf(i).parts]
                   ELSE [anchor |-> local_base_path.anchor,
                         parts |-> local_base_path.parts
                                   \o <<KeyOf(i).parts[Len(KeyOf(i).parts)]>>])
            /\ IsUnder(local_base_path, full_local_path[i])

\* Two operations i, j of a finished bulk download without keep_structure
\* whose keys share the final segment, both keys stored, no fault injected.
SameNamePair(i, j) ==
    /\ i \in FOps /\ j \in FOps /\ i < j
    /\ fentry \in BatchEntries
    /\ ~keep_structure
    /\ BatchDone
    /\ faults = 0
    /\ list_files[i] \in Stored /\ list_files[j] \in Stored
    /\ Name(KeyOf(i)) = Name(KeyOf(j))

\* C5: without keep_structure two keys with the same final segment go to the
\* same local path; after the batch that one file holds the content of the
\* operation that wrote last, and both operations succeeded.
C5_LastWriterWins ==
    \A i \in FOps, j \in FOps :
        SameNamePair(i, j) =>
            /\ full_local_path[i] = full_local_path[j]
            /\ full_local_path[i] \in DOMAIN files
            /\ files[full_local_path[i]] =
                  Content(list_files[lastw[full_local_path[i]]])
            /\ pc[i] = "ret_true" /\ pc[j] = "ret_true"

\* C6: no two operations of one bulk download ever have the same destination
\* open for writing at the same time.
C6_OwnDestination ==
    \A i \in FOps, j \in FOps :
        (i # j /\ pc[i] = "stream" /\ pc[j] = "stream")
            => full_local_path[i] # full_local_path[j]

\* The operations of the batch whose key the store does not hold.
MissingOps == {i \in FOps : list_files[i] \notin Stored}

\* A finished download_files batch of the latest variant, nothing failing
\* but the lookups of the missing keys.
MissingKeysBatch ==
    /\ fentry = "download_files"
    /\ BatchDone
    /\ faults = 0

\* What C13 promises of such a batch with k missing keys.
MissingKeysOutcome ==
    /\ BatchResult = <<Len(list_files) - Cardinality(MissingOps),
                       Cardinality(MissingOps)>>
    /\ Cardinality(DOMAIN files) = Len(list_files) - Cardinality(MissingOps)
    /\ \A i \in MissingOps : full_local_path[i] \notin DOMAIN files

C14_DownloadIdempotence ==
    (run = 2 /\ BatchDone /\ faults = 0) =>
        /\ files = first.files
        /\ BatchResult = first.result

\* C21: a download of the latest variant that fails after its local file was
\* opened returns False and leaves the file in place; when no other
\* operation writes to that path, the file holds exactly the bytes written
\* before the failure, whatever it held before the call.
C21_NoCleanup ==
    \A i \in FOps :
        (variant = "latest" /\ pc[i] = "ret_false" /\ touched[i]) =>
            /\ full_local_path[i] \in DOMAIN files
            /\ (\A j \in FOps \ {i} : full_local_path[j] # full_local_path[i])
                  => files[full_local_path[i]] =
                        SubSeq(Content(list_files[i]), 1, off[i])

C21_Witness ==
    /\ variant = "latest"
    /\ run = 2
    /\ list_files = <<1>>
    /\ pc[1] = "ret_false"
    /\ touched[1]
    /\ first.files[full_local_path[1]] = Content(1)
    /\ files[full_local_path[1]] = <<>>

\* C24: every operation has a byte display of its own: the display of
\* operation i is open exactly while i streams, shows the bytes i has
\* written and nothing else, and is closed once i has ended, on success and
\* on failure alike; a variant without byte displays never makes one.
C24_OwnProgressSink ==
    \A i \in FOps :
        /\ pc[i] = "stream" <=> bar[i].state = "open"
        /\ bar[i].state # "none" => bar[i].n = off[i]
        /\ (pc[i] \in Terminal /\ touched[i] /\ variant = "latest")
              => bar[i].state = "closed"
        /\ variant = "earliest" => bar[i] = NoBar

C24_Witness ==
    /\ variant = "latest"
    /\ Len(list_files) = 2
    /\ pc[1] = "ret_false" /\ bar[1] = [state |-> "closed", n |-> 1]
    /\ pc[2] = "stream" /\ bar[2] = [state |-> "open", n |-> 0]

\* C20: a single-file download of the latest variant performs its steps in
\* the order mkdir, head, open, stream; one whose head call fails returns
\* False having created, truncated or written no file (its parent
\* directories may exist).
C20_StepOrder ==
    \A i \in FOps :
        variant = "latest" =>
            /\ \E n \in 0..4 :
                  steps[i] = SubSeq(<<"mkdir", "head", "open", "stream">>, 1, n)
            /\ (pc[i] \in Terminal /\ Len(steps[i]) > 0
                    /\ steps[i][Len(steps[i])] = "head")
                  => (pc[i] = "ret_false" /\ ~touched[i])

C20_Witness ==
    /\ variant = "latest"
    /\ run = 1
    /\ list_files = <<4>>
    /\ pc[1] = "ret_false"
    /\ steps[1] = <<"mkdir", "head">>
    /\ Parent(full_local_path[1]) \in dirs
    /\ DOMAIN files = {}

----------------------------------------------------------------------------
(* Keys as strings (sequences of characters) and list_files                *)

StartsWith(k, p) == Len(p) <= Len(k) /\ SubSeq(k, 1, Len(p)) = p

\* str.endswith
EndsWith(k, e) == Len(e) <= Len(k) /\ SubSeq(k, Len(k) - Len(e) + 1, Len(k)) = e

\* The keys a bucket may hold, in the store's (byte) order:
\* "d/a.p", "d/b.p", "d/c.t", "d/p", "e/a.p".
StorePool == <<
    <<"d", "/", "a", ".", "p">>,
    <<"d", "/", "b", ".", "p">>,
    <<"d", "/", "c", ".", "t">>,
    <<"d", "/", "p">>,
    <<"e", "/", "a", ".", "p">> >>

Prefixes == {<<"d", "/">>, <<"e", "/">>, <<>>}
NoExtension == <<>>
Extensions == {NoExtension, <<".", "p">>, <<".", "t">>, <<"p">>}

\* [f(x) for x in s if keep(x)]
FilterSeq(s, Keep(_)) == SelectSeq(s, Keep)
MapSeq(s, F(_)) == [i \in 1..Len(s) |-> F(s[i])]

\* The bucket's keys in store order.
StoreSeq == FilterSeq(StorePool, LAMBDA k : k \in lstore)

\* PurePosixPath(key): the segments between slashes, empty and "." ones
\* dropped; anchored when the key starts with a slash.
SplitKey(k) ==
    LET acc[i \in 0..Len(k)] ==
            IF i = 0 THEN <<<<>>, <<>>>>
            ELSE LET prev == acc[i - 1]
                     flushed == IF prev[2] \in {<<>>, <<".">>} THEN prev[1]
                                ELSE Append(prev[1], prev[2])
                 IN  IF k[i] = "/" THEN <<flushed, <<>>>>
                     ELSE <<prev[1], Append(prev[2], k[i])>>
        last == acc[Len(k)]
    IN  IF last[2] \in {<<>>, <<".">>} THEN last[1] ELSE Append(last[1], last[2])

PurePosixPath(k) ==
    [anchor |-> (Len(k) > 0 /\ k[1] = "/"), parts |-> SplitKey(k)]

\* str(path)
RECURSIVE JoinParts(_)
JoinParts(parts) ==
    IF Len(parts) = 0 THEN <<>>
    ELSE IF Len(parts) = 1 THEN parts[1]
    ELSE parts[1] \o <<"/">> \o JoinParts(Tail(parts))

PathStr(p) == (IF p.anchor THEN <<"/">> ELSE <<>>) \o JoinParts(p.parts)

\* s3_client.list_objects_v2(Bucket=bucket_name, Prefix=prefix): one
\* response, the first PageSize keys under the prefix in store order
\* ("Contents" is absent when there is none).
ListObjectsV2(prefix) ==
    LET under == FilterSeq(StoreSeq, LAMBDA k : StartsWith(k, prefix))
    IN  [Contents |-> SubSeq(under, 1, Min(Len(under), PageSize)),
         IsTruncated |-> Len(under) > PageSize]

\* list_files, when list_objects_v2 answers.
ListFilesResult(prefix, file_extension) ==
    LET response == ListObjectsV2(prefix)
    IN  IF Len(response.Contents) = 0 THEN <<>>
        ELSE MapSeq(FilterSeq(response.Contents,
                              LAMBDA k : file_extension = NoExtension
                                         \/ EndsWith(k, file_extension)),
                    PurePosixPath)

InitList ==
    /\ OrchUnused
    /\ FsUnused
    /\ UpUnused
    /\ OvUnused
    /\ ToolsUnused
    /\ lstore \in SUBSET Range(StorePool)
    /\ lprefix \in Prefixes
    /\ lext \in Extensions
    /\ lstate = "idle"
    /\ lfault = "none"
    /\ lresult = <<>>

\* list_files(bucket_name, prefix, file_extension): the store answers
\* (fault "none") or list_objects_v2 raises; only ClientError is caught.
ListFiles(fault) ==
    /\ lstate = "idle"
    /\ lfault' = fault
    /\ lstate' = IF fault \in {"none", "ClientError"} THEN "returned" ELSE "raised"
    /\ lresult' = IF fault = "none" THEN ListFilesResult(lprefix, lext) ELSE <<>>
    /\ UNCHANGED <<lstore, lprefix, lext>>
    /\ UNCHANGED nonListVars

NextList ==
    \E fault \in {"none", "ClientError", "ConnectionError"} : ListFiles(fault)

SpecList == InitList /\ [][NextList]_vars

----------------------------------------------------------------------------
(* Claims about list_files (checked under SpecList)                        *)

\* C10: list_files returns every key stored under the prefix, however many
\* there are, in store order: exactly those ending with the extension when
\* one is given, all of them when none is.
C10_ListsEveryKey ==
    (lstate = "returned" /\ lfault = "none") =>
        MapSeq(lresult, PathStr) =
            FilterSeq(StoreSeq,
                      LAMBDA k : /\ StartsWith(k, lprefix)
                                 /\ (lext = NoExtension \/ EndsWith(k, lext)))

\* C11: list_files never raises to its caller: whatever the call to the store
\* ends with (an answer, a service error response, a transport or
\* authentication failure), list_files returns a list.
C11_ListNeverRaises ==
    lstate # "raised"

----------------------------------------------------------------------------
(* Uploads: upload_files, async_upload_files, hybrid_upload_files          *)

UploadEntries == {"upload_files", "async_upload_files", "hybrid_upload_files"}

\* The local files a batch may name: "x.txt", "/data/y.txt", "data/x.txt"
\* (the name of the first, in another directory) and "gone.txt", which does
\* not exist.
LocalPool == <<
    Rel(<<Seg("x.txt")>>),
    Abs(<<Seg("data"), Seg("y.txt")>>),
    Rel(<<Seg("data"), Seg("x.txt")>>),
    Rel(<<Seg("gone.txt")>>) >>

LocalIds == 1..Len(LocalPool)
LocalExisting == {1, 2, 3}

\* The bytes of local file f.
LocalContent(f) == <<"bytes", f>>

\* base_object_key as passed by the caller: "up/", "up", "".
UpBases == {<<"up", "/">>, <<"up">>, <<>>}

UOps == 1..Len(ulist)
FileOf(i) == LocalPool[ulist[i]]

\* An upload batch that keeps the file's directories in the key.
UploadKeyKeepsPath(base, f) == Join(PurePosixPath(base), RelativeToAnchor(f))

\* object_key = base_object_key / f.name, base_object_key = Path(base_object_key)
UploadKey(base, f) == Join(PurePosixPath(base), Name(f))

UpTerminal == {"ret_true", "ret_false"}

\* What the operation's future or task holds once it has ended.
UpResult(i) == IF upc[i] = "ret_true" THEN "true" ELSE "false"

\* The counting loop of the entry point.
UpCount(e, r, c) ==
    IF e = "upload_files" THEN PooledCount(r, c[1], c[2])
    ELSE GatherCount(r, c[1], c[2])

InitUp ==
    /\ OrchUnused
    /\ FsUnused
    /\ ListUnused
    /\ OvUnused
    /\ ToolsUnused
    /\ uentry \in UploadEntries
    /\ ubase \in UpBases
    /\ ulist \in {l \in UNION {[1..n -> LocalIds] : n \in 1..MaxUpReq} :
                    \A a \in DOMAIN l, b \in DOMAIN l : l[a] = l[b] => a = b}
    /\ upc = [i \in 1..Len(ulist) |-> "init"]
    /\ ukey = [i \in 1..Len(ulist) |-> NoPath]
    /\ ubucket = [k \in {} |-> <<>>]
    /\ ufaults = 0
    /\ ucollected = {}
    /\ ucount = <<0, 0>>
    /\ ustate = "running"
    /\ uret = NoRet

\* The operation for list item i is built: its key is base_object_key / name.
UpBind(i) ==
    /\ upc[i] = "init"
    /\ ukey' = [ukey EXCEPT ![i] = UploadKey(ubase, FileOf(i))]
    /\ upc' = [upc EXCEPT ![i] = "getsize"]
    /\ UNCHANGED <<uentry, ubase, ulist, ubucket, ufaults, ucollected,
                   ucount, ustate, uret>>
    /\ UNCHANGED nonUpVars

\* file_size = os.path.getsize(local_path): FileNotFoundError for a missing
\* file, caught by "except Exception" (return False).
UpGetsize(i) ==
    /\ upc[i] = "getsize"
    /\ upc' = [upc EXCEPT ![i] = IF ulist[i] \in LocalExisting THEN "open"
                                 ELSE "ret_false"]
    /\ UNCHANGED <<uentry, ubase, ulist, ukey, ubucket, ufaults, ucollected,
                   ucount, ustate, uret>>
    /\ UNCHANGED nonUpVars

\* with open(local_path, "rb") as f
UpOpen(i) ==
    /\ upc[i] = "open"
    /\ upc' = [upc EXCEPT ![i] = "put"]
    /\ UNCHANGED <<uentry, ubase, ulist, ukey, ubucket, ufaults, ucollected,
                   ucount, ustate, uret>>
    /\ UNCHANGED nonUpVars

\* upload_fileobj(Fileobj=f, Bucket=bucket_name, Key=str(object_key)): the
\* object appears under the key, whole; return True.
UpPut(i) ==
    /\ upc[i] = "put"
    /\ ubucket' = [k \in DOMAIN ubucket \cup {PathStr(ukey[i])} |->
                      IF k = PathStr(ukey[i]) THEN LocalContent(ulist[i])
                      ELSE ubucket[k]]
    /\ upc' = [upc EXCEPT ![i] = "ret_true"]
    /\ UNCHANGED <<uentry, ubase, ulist, ukey, ufaults, ucollected,
                   ucount, ustate, uret>>
    /\ UNCHANGED nonUpVars

\* open or upload_fileobj raises (permissions, the store or the network):
\* "except Exception" returns False.
UpFault(i) ==
    /\ ufaults < MaxFaults
    /\ upc[i] \in {"open", "put"}
    /\ upc' = [upc EXCEPT ![i] = "ret_false"]
    /\ ufaults' = ufaults + 1
    /\ UNCHANGED <<uentry, ubase, ulist, ukey, ubucket, ucollected,
                   ucount, ustate, uret>>
    /\ UNCHANGED nonUpVars

\* One turn of the counting loop: as_completed order in upload_files, list
\* order once gather has every result in the async and hybrid entry points.
UpCollect(i) ==
    /\ ustate = "running"
    /\ i \in UOps \ ucollected
    /\ upc[i] \in UpTerminal
    /\ IF uentry = "upload_files" THEN TRUE
       ELSE /\ \A j \in UOps : upc[j] \in UpTerminal
            /\ \A j \in UOps \ ucollected : i <= j
    /\ ucollected' = ucollected \cup {i}
    /\ ucount' = UpCount(uentry, UpResult(i), ucount)
    /\ UNCHANGED <<uentry, ubase, ulist, upc, ukey, ubucket, ufaults,
                   ustate, uret>>
    /\ UNCHANGED nonUpVars

\* return success_count, failure_count
UpReturn ==
    /\ ustate = "running"
    /\ ucollected = UOps
    /\ ustate' = "returned"
    /\ uret' = ucount
    /\ UNCHANGED <<uentry, ubase, ulist, upc, ukey, ubucket, ufaults,
                   ucollected, ucount>>
    /\ UNCHANGED nonUpVars

NextUp ==
    \/ \E i \in UOps : UpBind(i)
    \/ \E i \in UOps : UpGetsize(i)
    \/ \E i \in UOps : UpOpen(i)
    \/ \E i \in UOps : UpPut(i)
    \/ \E i \in UOps : UpFault(i)
    \/ \E i \in UOps : UpCollect(i)
    \/ UpReturn

SpecUp == InitUp /\ [][NextUp]_vars

----------------------------------------------------------------------------
(* Claims about uploads (checked under SpecUp)                             *)

\* The key the specification gives local file f under base key b, as a
\* string: b, a slash unless b is empty or ends with one, the file's name.
ExpectedUploadKey(b, f) ==
    (IF b = <<>> THEN <<>>
     ELSE IF b[Len(b)] = "/" THEN b ELSE b \o <<"/">>)
    \o f.parts[Len(f.parts)]

\* C12: every local file f of an upload batch goes to the key
\* base_key / name(f), whatever directory f lies in; when the N files exist,
\* have pairwise distinct names and nothing fails, the bucket afterwards
\* holds exactly those N keys with the files' contents and the call
\* returns (N, 0).
C12_UploadKeyAndResult ==
    /\ \A i \in UOps :
          ukey[i] # NoPath =>
              PathStr(ukey[i]) = ExpectedUploadKey(ubase, FileOf(i))
    /\ (/\ ustate = "returned"
        /\ ufaults = 0
        /\ \A i \in UOps : ulist[i] \in LocalExisting
        /\ \A i \in UOps, j \in UOps : Name(FileOf(i)) = Name(FileOf(j)) => i = j)
       => /\ DOMAIN ubucket = {ExpectedUploadKey(ubase, FileOf(i)) : i \in UOps}
          /\ Cardinality(DOMAIN ubucket) = Len(ulist)
          /\ \A i \in UOps :
                ubucket[ExpectedUploadKey(ubase, FileOf(i))] = LocalContent(ulist[i])
          /\ uret = <<Len(ulist), 0>>

C12_Witness ==
    /\ ustate = "returned"
    /\ uentry = "hybrid_upload_files"
    /\ ubase = <<"up", "/">>
    /\ ulist = <<1, 2>>
    /\ DOMAIN ubucket = {<<"up", "/", "x.txt">>, <<"up", "/", "y.txt">>}
    /\ uret = <<2, 0>>

----------------------------------------------------------------------------
(* Two bulk calls on one S3Manager, one after the other or overlapping     *)

Calls == {1, 2}

\* One download entry point per mode.
OverlapEntries == {"download_files", "async_download_files", "hybrid_download_files"}

OOps(c) == 1..Len(ooutcome[c])

\* Counters kept in one place for every call (an attribute of the manager).
SharedCounterCell(c) == 0

\* success_count = 0; failure_count = 0: local variables of the frame of
\* call c.
CounterCell(c) == c

\* The executor whose worker threads run the operations of call c: the
\* ThreadPoolExecutor(self.max_threads) the pooled call creates for itself,
\* the default executor of the event loop the hybrid call runs on
\* (run_in_executor(None, ...)), none for the async call's tasks.
ExecutorOf(c) ==
    CASE ModeOf(oentry[c]) = "pooled" -> <<"ThreadPoolExecutor", c>>
      [] ModeOf(oentry[c]) = "hybrid" -> <<"default_executor", oloop[c]>>
      [] OTHER                        -> <<"none", c>>

ExecutorWorkers(c) ==
    IF ModeOf(oentry[c]) = "pooled" THEN max_threads ELSE DefaultExecutorWorkers

\* The operations, of any call, running on the executor of call c.
RunningOn(c) ==
    {<<d, i>> \in Calls \X (1..MaxOvReq + 1) :
        /\ i \in OOps(d)
        /\ ExecutorOf(d) = ExecutorOf(c)
        /\ ost[d][i] = "running"}

OCount(e, r, sf) ==
    IF ModeOf(e) = "pooled" THEN PooledCount(r, sf[1], sf[2])
    ELSE GatherCount(r, sf[1], sf[2])

InitOverlap ==
    /\ OrchUnused
    /\ FsUnused
    /\ ListUnused
    /\ UpUnused
    /\ ToolsUnused
    /\ oentry \in [Calls -> OverlapEntries]
    /\ ooutcome \in [Calls -> UNION {[1..n -> Outcomes] : n \in 1..MaxOvReq}]
    /\ oloop \in {[c \in Calls |-> 1], [c \in Calls |-> c]}
    /\ ophase = [c \in Calls |-> "idle"]
    /\ ost = [c \in Calls |-> [i \in 1..Len(ooutcome[c]) |-> "queued"]]
    /\ ocollected = [c \in Calls |-> {}]
    /\ ocells = [k \in {CounterCell(c) : c \in Calls} |-> <<0, 0>>]
    /\ oret = [c \in Calls |-> NoRet]

\* A caller (a thread, or a task of an event loop) enters a bulk entry
\* point: the counters start at zero and the operations are submitted.
OCall(c) ==
    /\ ophase[c] = "idle"
    /\ ophase' = [ophase EXCEPT ![c] = "running"]
    /\ ocells' = [ocells EXCEPT ![CounterCell(c)] = <<0, 0>>]
    /\ UNCHANGED <<oentry, ooutcome, oloop, ost, ocollected, oret>>
    /\ UNCHANGED nonOvVars

\* A worker of the call's executor takes the call's next operation; the
\* event loop starts the next task of an async call.
OStart(c, i) ==
    /\ ophase[c] = "running"
    /\ i \in OOps(c)
    /\ ost[c][i] = "queued"
    /\ \A j \in OOps(c) : ost[c][j] = "queued" => i <= j
    /\ IF ModeOf(oentry[c]) = "async" THEN TRUE
       ELSE Cardinality(RunningOn(c)) < ExecutorWorkers(c)
    /\ ost' = [ost EXCEPT ![c][i] = "running"]
    /\ UNCHANGED <<oentry, ooutcome, oloop, ophase, ocollected, ocells, oret>>
    /\ UNCHANGED nonOvVars

OFinish(c, i) ==
    /\ i \in OOps(c)
    /\ ost[c][i] = "running"
    /\ ost' = [ost EXCEPT ![c][i] = "done"]
    /\ UNCHANGED <<oentry, ooutcome, oloop, ophase, ocollected, ocells, oret>>
    /\ UNCHANGED nonOvVars

\* One turn of the call's counting loop.
OCollect(c, i) ==
    /\ ophase[c] = "running"
    /\ i \in OOps(c) \ ocollected[c]
    /\ ost[c][i] = "done"
    /\ IF ModeOf(oentry[c]) = "pooled" THEN TRUE
       ELSE /\ \A j \in OOps(c) : ost[c][j] = "done"
            /\ \A j \in OOps(c) \ ocollected[c] : i <= j
    /\ ocollected' = [ocollected EXCEPT ![c] = @ \cup {i}]
    /\ ocells' = [ocells EXCEPT ![CounterCell(c)] =
                     OCount(oentry[c], ooutcome[c][i], @)]
    /\ UNCHANGED <<oentry, ooutcome, oloop, ophase, ost, oret>>
    /\ UNCHANGED nonOvVars

\* return success_count, failure_count
OReturn(c) ==
    /\ ophase[c] = "running"
    /\ ocollected[c] = OOps(c)
    /\ ophase' = [ophase EXCEPT ![c] = "returned"]
    /\ oret' = [oret EXCEPT ![c] = ocells[CounterCell(c)]]
    /\ UNCHANGED <<oentry, ooutcome, oloop, ost, ocollected, ocells>>
    /\ UNCHANGED nonOvVars

NextOverlap ==
    \/ \E c \in Calls : OCall(c)
    \/ \E c \in Calls, i \in 1..MaxOvReq + 1 : OStart(c, i)
    \/ \E c \in Calls, i \in 1..MaxOvReq + 1 : OFinish(c, i)
    \/ \E c \in Calls, i \in 1..MaxOvReq + 1 : OCollect(c, i)
    \/ \E c \in Calls : OReturn(c)

SpecOverlap == InitOverlap /\ [][NextOverlap]_vars

----------------------------------------------------------------------------
(* Claims about overlapping calls (checked under SpecOverlap)              *)

\* What the operations of call c amount to.
OwnCounts(c) ==
    <<Cardinality({i \in OOps(c) : ooutcome[c][i] = "true"}),
      Cardinality({i \in OOps(c) : ooutcome[c][i] # "true"})>>

\* The counting half of C16: the pair a bulk call returns counts that
\* call's operations only, whether the two calls run one after the other
\* or overlap.
CountsOwnOperations ==
    \A c \in Calls : ophase[c] = "returned" => oret[c] = OwnCounts(c)

\* C16: no counter state is shared between bulk calls, the pair a call
\* returns counts only its own operations, and a call shares nothing but
\* the store client with another: in particular operations of two calls
\* never run on one and the same worker pool.
C16_NothingSharedButClient ==
    /\ CountsOwnOperations
    /\ \A c \in Calls, d \in Calls :
          (/\ c # d
           /\ ModeOf(oentry[c]) # "async"
           /\ \E i \in OOps(c) : ost[c][i] = "running"
           /\ \E j \in OOps(d) : ost[d][j] = "running")
          => ExecutorOf(c) # ExecutorOf(d)


----------------------------------------------------------------------------
(* The async entry points and their store client                           *)

AsyncCallEntries == {"async_download_files", "async_upload_files"}

\* What the environment has in store for a task: the transfer goes through,
\* the object (download) or the local file (upload) is missing, or the
\* transfer itself fails.
AsyncKinds == {"ok", "missing", "fails"}

ATasks == 1..Len(akind)

ATaskDone(i) == apc[i] \in {"true", "false"}

\* A gather placed after the async with block: the block is left as soon as
\* the coroutines are created.
GatherOutsideWith == TRUE

\* results = await asyncio.gather(*tasks, return_exceptions=True) is the
\* last statement inside "async with session.client("s3") as s3_client":
\* the block is left when gather has the result of every task.
CanExitSession == \A i \in ATasks : ATaskDone(i)

\* for result in results: exception or false value -> failure, else success
ACounts ==
    <<Cardinality({i \in ATasks : apc[i] = "true"}),
      Cardinality({i \in ATasks : apc[i] # "true"})>>

InitAsync ==
    /\ S3Unused
    /\ ZipUnused
    /\ GuiUnused
    /\ TreeUnused
    /\ asy \in {[aentry |-> "none", akind |-> k, asession |-> "none",
                 asessions |-> 0, aphase |-> "idle",
                 apc |-> [i \in 1..Len(k) |-> "none"],
                 aclient |-> [i \in 1..Len(k) |-> 0],
                 acalls |-> [i \in 1..Len(k) |-> <<>>],
                 aret |-> NoRet] :
                   k \in UNION {[1..n -> AsyncKinds] : n \in 0..MaxAsyncReq}}

\* The entry point builds its aioboto3.Session and enters the async with
\* block: one client for the call.
AEnter(e) ==
    /\ aphase \in {"idle", "returned"}
    /\ asy' = [asy EXCEPT !.aentry = e,
                          !.asession = "open",
                          !.asessions = 1,
                          !.aphase = "creating",
                          !.apc = [i \in ATasks |-> "none"],
                          !.aclient = [i \in ATasks |-> 0],
                          !.acalls = [i \in ATasks |-> <<>>]]
    /\ UNCHANGED nonAsyncVars

\* One turn of "for file in list_files": the coroutine of the single-file
\* operation is created with s3_client as its argument (it does not run yet).
ACreate(i) ==
    /\ aphase = "creating"
    /\ apc[i] = "none"
    /\ \A j \in ATasks : apc[j] = "none" => i <= j
    /\ asy' = [asy EXCEPT !.apc[i] = "created",
                          !.aclient[i] = asessions]
    /\ UNCHANGED nonAsyncVars

\* asyncio.gather wraps every coroutine in a task and the entry point
\* suspends.
AGather ==
    /\ aphase = "creating"
    /\ \A i \in ATasks : apc[i] = "created"
    /\ asy' = [asy EXCEPT !.aphase = "gathering",
                          !.apc = [i \in ATasks |-> "head"]]
    /\ UNCHANGED nonAsyncVars

\* Task i up to its first store transfer: a download awaits
\* s3_client.head_object (a call on the client it was given), an upload
\* reads os.path.getsize (no store call); an exception ends the task with
\* False. A client that has been closed fails every call.
AHead(i) ==
    /\ apc[i] = "head"
    /\ asy' = IF aentry = "async_download_files"
              THEN [asy EXCEPT
                       !.acalls[i] = Append(@, <<"head", asession>>),
                       !.apc[i] = IF asession = "open" /\ akind[i] # "missing"
                                  THEN "transfer" ELSE "false"]
              ELSE [asy EXCEPT
                       !.apc[i] = IF akind[i] # "missing"
                                  THEN "transfer" ELSE "false"]
    /\ UNCHANGED nonAsyncVars

\* Task i awaits s3_client.download_fileobj or s3_client.upload_fileobj and
\* returns True, or False when the call raised.
ATransfer(i) ==
    /\ apc[i] = "transfer"
    /\ asy' = [asy EXCEPT
                  !.acalls[i] = Append(@, <<IF aentry = "async_download_files"
                                            THEN "download" ELSE "upload",
                                            asession>>),
                  !.apc[i] = IF asession = "open" /\ akind[i] = "ok"
                             THEN "true" ELSE "false"]
    /\ UNCHANGED nonAsyncVars

\* The async with block is left: the client is closed.
AExit ==
    /\ aphase = "gathering"
    /\ CanExitSession
    /\ asy' = [asy EXCEPT !.asession = "closed", !.aphase = "exited"]
    /\ UNCHANGED nonAsyncVars

\* The results are counted and the pair is returned.
AReturn ==
    /\ aphase = "exited"
    /\ \A i \in ATasks : ATaskDone(i)
    /\ asy' = [asy EXCEPT !.aret = ACounts, !.aphase = "returned"]
    /\ UNCHANGED nonAsyncVars

NextAsync ==
    \/ \E e \in AsyncCallEntries : AEnter(e)
    \/ \E i \in ATasks : ACreate(i)
    \/ AGather
    \/ \E i \in ATasks : AHead(i)
    \/ \E i \in ATasks : ATransfer(i)
    \/ AExit
    \/ AReturn

SpecAsync == InitAsync /\ [][NextAsync]_vars

\* C23: an async bulk call makes one store client and hands it to every
\* task; the client is open whenever a task is unfinished, every head,
\* download and upload call was made while the client was open, and when
\* the counts are returned the client has been closed and every task has
\* ended.
C23_SharedSession ==
    /\ asessions <= 1
    /\ \A i \in ATasks :
          /\ apc[i] # "none" => aclient[i] = 1
          /\ apc[i] \in {"head", "transfer"} => asession = "open"
          /\ \A k \in 1..Len(acalls[i]) : acalls[i][k][2] = "open"
    /\ aphase = "returned" =>
          /\ asession = "closed"
          /\ \A i \in ATasks : ATaskDone(i)
          /\ aret = ACounts

C23_Witness ==
    /\ aphase = "returned"
    /\ aentry = "async_download_files"
    /\ akind = <<"ok", "missing">>
    /\ acalls[1] = <<<<"head", "open">>, <<"download", "open">>>>
    /\ acalls[2] = <<<<"head", "open">>>>
    /\ aclient = <<1, 1>>
    /\ asession = "closed"
    /\ aret = <<1, 1>>

----------------------------------------------------------------------------
(* The threaded ZipManager                                                 *)

\* The calls a thread can make: create_zip, add_file on a path that is a file
\* or is not, add_folder on a path that is a directory of n files or is not
\* a directory. The workers of add_items make the add_file and add_folder
\* calls; any other thread can make any of them directly.
ZCalls ==
    {[op |-> "create_zip", exists |-> TRUE, n |-> 0]}
    \cup {[op |-> "add_file", exists |-> e, n |-> 1] : e \in BOOLEAN}
    \cup {[op |-> "add_folder", exists |-> TRUE, n |-> k] : k \in 0..MaxFolderFiles}
    \cup {[op |-> "add_folder", exists |-> FALSE, n |-> 0]}

ZThreads == 1..Len(zitems)

\* A lock that never blocks.
LockAlwaysFree == TRUE

\* threading.Lock: "with self._lock" blocks while another thread holds it.
LockFree == zlock = 0

RECURSIVE ZSum(_, _)
ZSum(f, n) == IF n = 0 THEN 0 ELSE f[n] + ZSum(f, n - 1)

InitZip ==
    /\ S3Unused
    /\ AsyncUnused
    /\ GuiUnused
    /\ TreeUnused
    /\ zip \in {[zitems |-> c,
                 zpc |-> [t \in 1..Len(c) |-> "start"],
                 zlock |-> 0,
                 zwriters |-> {},
                 archived_count |-> 0,
                 zread |-> [t \in 1..Len(c) |-> 0],
                 zentries |-> 0,
                 zleft |-> [t \in 1..Len(c) |-> c[t].n],
                 zchanges |-> {}] :
                   c \in UNION {[1..n -> ZCalls] : n \in 1..MaxZipThreads}}

\* add_file: "if not file_path.is_file(): raise", add_folder: "if not
\* folder_path.is_dir(): raise", both before the lock is asked for;
\* create_zip goes straight to the lock.
ZCheck(t) ==
    /\ zpc[t] = "start"
    /\ zip' = [zip EXCEPT !.zpc[t] = IF zitems[t].exists THEN "acquire"
                                     ELSE "raised"]
    /\ UNCHANGED nonZipVars

\* with self._lock:
ZAcquire(t) ==
    /\ zpc[t] = "acquire"
    /\ LockFree
    /\ zip' = [zip EXCEPT !.zlock = t, !.zpc[t] = "open"]
    /\ UNCHANGED nonZipVars

\* with zipfile.ZipFile(self.zip_path, mode): 'w' in create_zip (the archive
\* is emptied), 'a' in add_file and add_folder.
ZOpen(t) ==
    /\ zpc[t] = "open"
    /\ zip' = [zip EXCEPT
                  !.zwriters = @ \cup {t},
                  !.zentries = IF zitems[t].op = "create_zip" THEN 0 ELSE @,
                  !.zpc[t] =
                      CASE zitems[t].op = "create_zip" -> "close"
                        [] zitems[t].op = "add_file" -> "write"
                        [] OTHER -> IF zleft[t] > 0 THEN "write" ELSE "close"]
    /\ UNCHANGED nonZipVars

\* zip_file.write(file_path, arcname)
ZWrite(t) ==
    /\ zpc[t] = "write"
    /\ zip' = [zip EXCEPT
                  !.zentries = @ + 1,
                  !.zleft[t] = @ - 1,
                  !.zpc[t] = IF zitems[t].op = "add_file" THEN "close"
                             ELSE "load"]
    /\ UNCHANGED nonZipVars

\* The ZipFile block is left: in add_file before the count is updated, in
\* create_zip and add_folder as the last statement under the lock.
ZClose(t) ==
    /\ zpc[t] = "close"
    /\ zip' = [zip EXCEPT
                  !.zwriters = @ \ {t},
                  !.zpc[t] = IF zitems[t].op = "add_file" THEN "load"
                             ELSE "release"]
    /\ UNCHANGED nonZipVars

\* self.archived_count += 1, first half: the attribute is loaded.
ZLoad(t) ==
    /\ zpc[t] = "load"
    /\ zip' = [zip EXCEPT !.zread[t] = archived_count, !.zpc[t] = "store"]
    /\ UNCHANGED nonZipVars

\* self.archived_count += 1, second half: the sum is stored; add_folder
\* goes on with the next file of the walk.
ZStore(t) ==
    /\ zpc[t] = "store"
    /\ zip' = [zip EXCEPT
                  !.archived_count = zread[t] + 1,
                  !.zchanges = @ \cup {<<t, zlock>>},
                  !.zpc[t] =
                      CASE zitems[t].op = "add_file" -> "release"
                        [] OTHER -> IF zleft[t] > 0 THEN "write" ELSE "close"]
    /\ UNCHANGED nonZipVars

\* The lock's with block is left.
ZRelease(t) ==
    /\ zpc[t] = "release"
    /\ zip' = [zip EXCEPT !.zlock = IF @ = t THEN 0 ELSE @,
                          !.zpc[t] = "done"]
    /\ UNCHANGED nonZipVars

NextZip ==
    \/ \E t \in ZThreads : ZCheck(t)
    \/ \E t \in ZThreads : ZAcquire(t)
    \/ \E t \in ZThreads : ZOpen(t)
    \/ \E t \in ZThreads : ZWrite(t)
    \/ \E t \in ZThreads : ZClose(t)
    \/ \E t \in ZThreads : ZLoad(t)
    \/ \E t \in ZThreads : ZStore(t)
    \/ \E t \in ZThreads : ZRelease(t)

SpecZip == InitZip /\ [][NextZip]_vars

\* C28: whatever the interleaving of the threads calling create_zip,
\* add_file and add_folder, at most one thread has the archive open for
\* writing, and it is the holder of the lock; every store to archived_count
\* was made by the thread holding the lock, so that no increment is lost:
\* the count is the number of files written and counted.
C28_WriterExclusion ==
    /\ Cardinality(zwriters) <= 1
    /\ \A t \in zwriters : zlock = t
    /\ \A c \in zchanges : c[1] = c[2]
    /\ \A t \in ZThreads : zpc[t] \in {"load", "store"} => zlock = t
    /\ archived_count =
          ZSum([t \in ZThreads |->
                   IF zitems[t].op = "create_zip" \/ ~zitems[t].exists
                   THEN 0
                   ELSE zitems[t].n - zleft[t]
                        - (IF zpc[t] \in {"close", "load", "store"}
                              /\ zitems[t].op = "add_file" THEN 1 ELSE 0)
                        - (IF zpc[t] \in {"load", "store"}
                              /\ zitems[t].op = "add_folder" THEN 1 ELSE 0)],
               Len(zitems))

C28_Witness ==
    /\ Len(zitems) = 2
    /\ zitems[1].op = "add_folder" /\ zitems[1].n = 2
    /\ zitems[2].op = "add_file" /\ zitems[2].exists
    /\ zpc[1] = "write" /\ zleft[1] = 1
    /\ zwriters = {1}
    /\ zlock = 1
    /\ zpc[2] = "acquire"
    /\ archived_count = 1
    /\ zchanges = {<<1, 1>>}

----------------------------------------------------------------------------
(* The notebook GUI                                                        *)

\* Dropdown(options=['Upload', 'Download'])
Operations == {"Upload", "Download"}

BucketTexts == {"", "bucket"}
PrefixTexts == {"", "data"}

\* What list_files answers for the bucket and prefix: nothing, or keys from
\* which _extract_s3_folders gets at least one folder.
Remotes == {"none", "folders"}

\* _validate_inputs: the first required field that is empty gives the error.
ValidateInputs ==
    IF bucket_name = "" THEN "Bucket name is required"
    ELSE IF ~folder_selected THEN "Local folder is required"
    ELSE "ok"

\* _on_process_click: if operation == 'Download': self._handle_upload(...)
\* else: self._handle_download(...)
Dispatch(op) == IF op = "Download" THEN "upload" ELSE "download"

\* _handle_upload: the files under the local folder go to upload_files.
\* _handle_download: list_files, then the error or the folder selection.
HandlerCalls(h) ==
    IF h = "upload" THEN <<"upload_files">> ELSE <<"list_files">>

HandlerOutput(h) ==
    IF h = "upload" THEN "empty"
    ELSE IF remote = "none" THEN "Retrieving; Error: No folders found for download"
    ELSE "Retrieving; folder selection"

InitGui ==
    /\ S3Unused
    /\ AsyncUnused
    /\ ZipUnused
    /\ TreeUnused
    /\ gui \in {[bucket_name |-> "", folder_selected |-> FALSE,
                 operation |-> "Upload", s3_prefix |-> "", remote |-> r,
                 handler |-> "none", s3calls |-> <<>>, output |-> "empty",
                 clicked |-> "none"] : r \in Remotes}

\* The user edits the bucket name.
SetBucket(v) ==
    /\ bucket_name # v
    /\ gui' = [gui EXCEPT !.bucket_name = v]
    /\ UNCHANGED nonGuiVars

\* The user edits the prefix.
SetPrefix(v) ==
    /\ s3_prefix # v
    /\ gui' = [gui EXCEPT !.s3_prefix = v]
    /\ UNCHANGED nonGuiVars

\* The user picks an operation in the dropdown.
SetOperation(v) ==
    /\ operation # v
    /\ gui' = [gui EXCEPT !.operation = v]
    /\ UNCHANGED nonGuiVars

\* The user selects a local folder in the file chooser.
SelectFolder ==
    /\ ~folder_selected
    /\ gui' = [gui EXCEPT !.folder_selected = TRUE]
    /\ UNCHANGED nonGuiVars

\* _on_process_click: the output is cleared, the inputs are validated, and
\* the handler chosen from the dropdown's value runs.
ProcessClick ==
    /\ gui' = IF ValidateInputs # "ok"
              THEN [gui EXCEPT !.clicked = "invalid",
                               !.handler = "none",
                               !.s3calls = <<>>,
                               !.output = ValidateInputs]
              ELSE [gui EXCEPT !.clicked = operation,
                               !.handler = Dispatch(operation),
                               !.s3calls = HandlerCalls(Dispatch(operation)),
                               !.output = HandlerOutput(Dispatch(operation))]
    /\ UNCHANGED nonGuiVars

NextGui ==
    \/ \E v \in BucketTexts : SetBucket(v)
    \/ \E v \in PrefixTexts : SetPrefix(v)
    \/ \E v \in Operations : SetOperation(v)
    \/ SelectFolder
    \/ ProcessClick

SpecGui == InitGui /\ [][NextGui]_vars

\* C29: after a click of Start Process with valid inputs the handler that ran
\* is the one of the selected operation: 'Upload' ran the upload handler and
\* called upload_files, 'Download' ran the download handler and called
\* list_files; after a click with an empty bucket name or without a local
\* folder no handler ran and no S3 call was made.
C29_Dispatch ==
    /\ clicked = "Upload" => handler = "upload" /\ s3calls = <<"upload_files">>
    /\ clicked = "Download" => handler = "download" /\ s3calls = <<"list_files">>
    /\ clicked = "invalid" => handler = "none" /\ s3calls = <<>>

----------------------------------------------------------------------------
(* print_file_structure                                                    *)

\* The paths a caller can put in the list: siblings, a deeper key under the
\* same folder, another folder, an anchored key, and a key that is itself a
\* prefix of the others.
TreePool == <<
    Rel(<<Seg("docs"), Seg("a.pdf")>>),
    Rel(<<Seg("docs"), Seg("b.pdf")>>),
    Rel(<<Seg("docs"), Seg("sub"), Seg("c.txt")>>),
    Rel(<<Seg("img"), Seg("a.pdf")>>),
    Abs(<<Seg("docs"), Seg("a.pdf")>>),
    Rel(<<Seg("docs")>>) >>

TreeIds == 1..Len(TreePool)

\* file.parts: the anchor of an anchored path is its first part.
Parts(p) == IF p.anchor THEN <<Seg("/")>> \o p.parts ELSE p.parts

\* {}
EmptyDict == <<>>

\* A loop body that assigns current_level[part] = {} on every visit.
RECURSIVE InsertOverwrites(_, _)
InsertOverwrites(level, parts) ==
    IF parts = <<>> THEN level
    ELSE [k \in DOMAIN level \cup {Head(parts)} |->
             IF k = Head(parts)
             THEN InsertOverwrites(EmptyDict, Tail(parts))
             ELSE level[k]]

\* for part in parts: if part not in current_level: current_level[part] = {};
\* current_level = current_level[part]
RECURSIVE Insert(_, _)
Insert(level, parts) ==
    IF parts = <<>> THEN level
    ELSE LET part == Head(parts)
             below == IF part \in DOMAIN level THEN level[part] ELSE EmptyDict
         IN  [k \in DOMAIN level \cup {part} |->
                 IF k = part THEN Insert(below, Tail(parts)) ELSE level[k]]

\* The root-to-node paths of a nested dictionary, as build_tree walks it.
RECURSIVE TreePaths(_)
TreePaths(level) ==
    {<<k>> : k \in DOMAIN level}
    \cup UNION {{<<k>> \o q : q \in TreePaths(level[k])} : k \in DOMAIN level}

\* The whole loop over a list of pool indices.
RECURSIVE TreeOf(_)
TreeOf(ids) ==
    IF ids = <<>> THEN EmptyDict
    ELSE Insert(TreeOf(SubSeq(ids, 1, Len(ids) - 1)),
                Parts(TreePool[ids[Len(ids)]]))

InitTree ==
    /\ S3Unused
    /\ AsyncUnused
    /\ ZipUnused
    /\ GuiUnused
    /\ tree \in {[tgiven |-> l, tfiles |-> l, tidx |-> 0,
                  folder_structure |-> EmptyDict, tstate |-> "called"] :
                    l \in UNION {[1..n -> TreeIds] : n \in 0..MaxTreeKeys}}

\* if not files: return; otherwise folder_structure = {}
TStart ==
    /\ tstate = "called"
    /\ tree' = [tree EXCEPT !.tstate = IF tfiles = <<>> THEN "returned"
                                       ELSE "building"]
    /\ UNCHANGED nonTreeVars

\* One turn of "for file in files".
TInsert ==
    /\ tstate = "building"
    /\ tidx < Len(tfiles)
    /\ tree' = [tree EXCEPT
                   !.folder_structure =
                       Insert(@, Parts(TreePool[tfiles[tidx + 1]])),
                   !.tidx = @ + 1]
    /\ UNCHANGED nonTreeVars

\* The loop is over: the tree is rendered from folder_structure.
TRender ==
    /\ tstate = "building"
    /\ tidx = Len(tfiles)
    /\ tree' = [tree EXCEPT !.tstate = "built"]
    /\ UNCHANGED nonTreeVars

NextTree ==
    \/ TStart
    \/ TInsert
    \/ TRender

SpecTree == InitTree /\ [][NextTree]_vars

\* The non-empty prefixes of the parts of the first n keys of a list.
PrefixesOfKeys(ids, n) ==
    UNION {{SubSeq(Parts(TreePool[ids[k]]), 1, j) :
               j \in 1..Len(Parts(TreePool[ids[k]]))} : k \in 1..n}

\* The lists that hold the same keys in another order.
Reorderings(ids) ==
    {[i \in 1..Len(ids) |-> ids[f[i]]] :
        f \in {g \in [1..Len(ids) -> 1..Len(ids)] :
                  \A a, b \in 1..Len(ids) : a # b => g[a] # g[b]}}

\* C30: at every turn of the loop the root-to-node paths of folder_structure
\* are exactly the part prefixes of the keys inserted so far (keys with a
\* common prefix share its nodes, each path being there once); inserting a
\* key again changes nothing; the structure built from the list is the one
\* built from any reordering of it; and the caller's list is what it was.
C30_FolderTree ==
    /\ TreePaths(folder_structure) = PrefixesOfKeys(tfiles, tidx)
    /\ \A k \in 1..tidx :
          Insert(folder_structure, Parts(TreePool[tfiles[k]])) = folder_structure
    /\ tstate = "built" =>
          \A other \in Reorderings(tgiven) : TreeOf(other) = folder_structure
    /\ tfiles = tgiven

C30_Witness ==
    /\ tstate = "built"
    /\ tgiven = <<3, 1, 1>>
    /\ DOMAIN folder_structure = {Seg("docs")}
    /\ DOMAIN folder_structure[Seg("docs")] = {Seg("a.pdf"), Seg("sub")}
    /\ folder_structure = TreeOf(<<1, 3>>)

====
